---------------------------- MODULE Spec2Model ----------------------------
(*
  A model of Christmas_tree.py: the tree geometry generator (create_tree),
  the snow background generator (draw_background), the tree renderer
  (draw_tree) and the animation loop (animate_tree), as state machines.

  Representation.
    - A Python list is a sequence; Python's 0-based index k is position k+1.
    - A tree row is the pair <<width, ornament_positions>> of create_tree.
    - A background string is the sequence of its characters, each character
      its code point, so that its length is the length of the Python string.
    - A rendered tree line is a record [padding, cells]: the number of
      leading spaces and the sequence of <<colour, glyph>> cells that the
      code concatenates (colour + glyph + RESET).
    - random.random() is drawn from RandomPercent (hundredths of [0,1)):
      `random.random() > 0.3` is r > 30, `random.random() < p` is r < p with
      p in hundredths.
*)
EXTENDS Integers, Sequences, FiniteSets, TLC

VARIABLES
    pc,               \* control position of the program
    height, i, tree,  \* create_tree: argument, loop index, list being built
    call, background, \* draw_background: arguments of the call, its result
    duration, fps,    \* animate_tree: arguments
    frames, frame,    \* animate_tree: int(duration * fps), loop index
    terminal_width, terminal_height,
    blink_state, star_bright,
    tree_drawing, max_width,   \* result of the last draw_tree call
    rendered,         \* whether draw_tree was called in the current frame
    horison_size,     \* int(0.8 * (terminal_height - len(tree_drawing)))
    horison,          \* number of lines of the list horison
    stars,            \* list of [line_index, char_index]
    overlaid,         \* the stars written into horison in the current frame
    out,              \* what was written: counts of clears, frames, counters, sleeps, farewells
    star_seen,        \* the values star_bright has taken in this run
    interrupted_at    \* where KeyboardInterrupt was raised, "none" if it was not

vars == <<pc, height, i, tree, call, background, duration, fps, frames, frame,
          terminal_width, terminal_height, blink_state, star_bright,
          tree_drawing, max_width, rendered, horison_size, horison, stars,
          overlaid, out, star_seen, interrupted_at>>

createVars == <<height, i, tree>>
bgVars == <<call, background>>
animVars == <<duration, fps, frames, frame, terminal_width, terminal_height,
              blink_state, star_bright, rendered, horison_size, horison, stars,
              overlaid, out, star_seen, interrupted_at>>
drawVars == <<tree_drawing, max_width>>

----------------------------------------------------------------------------
(* Bounds of the model *)

MaxHeight == 17          \* create_tree: heights 1..MaxHeight (main uses 17)
MaxDrawHeight == 3       \* draw_tree alone: trees of height 1..MaxDrawHeight
MaxBgWidth == 8          \* draw_background: terminal_width in 0..MaxBgWidth
MaxBgContent == 3        \* draw_background: max_width in 0..MaxBgContent
MaxAnimHeight == 1       \* animation: trees of height 1..MaxAnimHeight
MaxDuration == 2         \* animation: duration in 0..MaxDuration
MaxFps == 1              \* animation: fps in 1..MaxFps
MaxTermWidth == 1        \* animation: terminal widths 0..MaxTermWidth
SmallTermHeight == 5     \* animation: a terminal a few lines taller than the tree
MaxStars == 2            \* animation: num_stars in 1..MaxStars
MaxRenderHeight == 2     \* render cache: trees of height 1..MaxRenderHeight
MaxRenderDuration == 4   \* render cache: duration 0 or MaxRenderDuration, fps 1
MaxStarDuration == 10    \* star pulse: duration in 0..MaxStarDuration, fps 1

----------------------------------------------------------------------------
(* Python helpers *)

Max(a, b) == IF a >= b THEN a ELSE b

Min(a, b) == IF a <= b THEN a ELSE b

\* list(range(start, stop, step)) for step > 0
RECURSIVE RangeUp(_, _, _)
RangeUp(start, stop, step) ==
    IF start >= stop THEN <<>>
    ELSE <<start>> \o RangeUp(start + step, stop, step)

\* list(range(start, stop, -step)) for step > 0
RECURSIVE RangeDown(_, _, _)
RangeDown(start, stop, step) ==
    IF start <= stop THEN <<>>
    ELSE <<start>> \o RangeDown(start - step, stop, step)

\* the elements of a list (Python's `x in list`)
Elems(s) == {s[k] : k \in 1..Len(s)}

----------------------------------------------------------------------------
(* create_tree *)

\* int(width * ornament_probability) with ornament_probability = 0.2
OrnamentShare(width) == width \div 5

\* int(ornament_probability * 10)
LargeStagger == 2

\* range(start, width + 1, spacing): the upper walk not stopped before the edge
OrnamentPositionsUnclipped(row) ==
    LET width == 1 + row * 2
        center == width \div 2
        num_ornaments == Max(1, OrnamentShare(width))
        stagger == IF row > 3 THEN LargeStagger ELSE 1
        spacing == (width - 1) \div (num_ornaments + 1)
        start == IF row % 2 = 0 THEN center + stagger ELSE center
    IN  RangeUp(start, width + 1, spacing) \o RangeDown(start, 0, spacing)

\* the ornament_positions of row `row` > 0
OrnamentPositions(row) ==
    LET width == 1 + row * 2
        center == width \div 2
        num_ornaments == Max(1, OrnamentShare(width))
        stagger == IF row > 3 THEN LargeStagger ELSE 1
        spacing == (width - 1) \div (num_ornaments + 1)
        start == IF row % 2 = 0 THEN center + stagger ELSE center
    IN  IF num_ornaments > 0
        THEN RangeUp(start, width - 1, spacing) \o RangeDown(start, 0, spacing)
        ELSE <<>>

\* the tuple appended for loop index `row`
TreeRow(row) ==
    IF row = 0 THEN <<1, <<>>>>
    ELSE <<1 + row * 2, OrnamentPositions(row)>>

\* one iteration of `for i in range(height)`
CreateRow ==
    /\ pc = "create_tree"
    /\ i < height
    /\ tree' = Append(tree, TreeRow(i))
    /\ i' = i + 1
    /\ UNCHANGED <<pc, height, bgVars, animVars, drawVars>>

\* `return tree` once the loop is exhausted
CreateReturn ==
    /\ pc = "create_tree"
    /\ i = height
    /\ pc' = "created"
    /\ UNCHANGED <<createVars, bgVars, animVars, drawVars>>

----------------------------------------------------------------------------
(* draw_tree *)

RandomPercent == 0..99

ornament_colors ==
    <<"RED", "BLUE", "MAGENTA", "CYAN", "YELLOW", "ORANGE", "PINK", "PURPLE",
      "GOLD", "LIME", "TEAL", "VIOLET">>

trunk_rows == 2

trunk_width == 1

\* the glyph literals of the source
foliage_glyph == "*"

ornament_glyph == "ornament"

star_glyph == "star"

trunk_glyph == "trunk"

\* max(row[0] for row in tree)
RECURSIVE MaxWidth(_)
MaxWidth(t) ==
    IF Len(t) = 1 THEN t[1][1]
    ELSE Max(t[1][1], MaxWidth(Tail(t)))

\* an ornament that is not lit drawn as plain foliage
CellOptionsPlain(row, col) ==
    IF col \in Elems(row[2])
    THEN {IF r > 30 THEN <<c, ornament_glyph>> ELSE <<"GREEN", foliage_glyph>> :
              r \in RandomPercent, c \in Elems(ornament_colors)}
    ELSE {<<"GREEN", foliage_glyph>>}

\* what row.append(...) can append for column `col` of a body row
CellOptions(row, col) ==
    IF col \in Elems(row[2])
    THEN {IF r > 30 THEN <<c, ornament_glyph>> ELSE <<"GREEN", ornament_glyph>> :
              r \in RandomPercent, c \in Elems(ornament_colors)}
    ELSE {<<"GREEN", foliage_glyph>>}

\* the lists `row` that `for i in range(width)` can build, up to column n
RECURSIVE RowRenders(_, _)
RowRenders(row, n) ==
    IF n = 0 THEN {<<>>}
    ELSE {Append(r, c) : r \in RowRenders(row, n - 1), c \in CellOptions(row, n - 1)}

\* the body lines for tree[1:], up to the n-th element of tree
RECURSIVE BodyRenders(_, _, _)
BodyRenders(t, n, mw) ==
    IF n <= 1 THEN {<<>>}
    ELSE {Append(b, [padding |-> (mw - t[n][1]) \div 2, cells |-> r]) :
              b \in BodyRenders(t, n - 1, mw), r \in RowRenders(t[n], t[n][1])}

StarLine(mw, bright) ==
    [padding |-> (mw - 1) \div 2,
     cells |-> <<<<IF bright THEN "YELLOW+BOLD" ELSE "YELLOW", star_glyph>>>>]

TrunkLines(mw) ==
    [k \in 1..trunk_rows |->
        [padding |-> (mw - trunk_width) \div 2,
         cells |-> [c \in 1..trunk_width |-> <<"BROWN", trunk_glyph>>]]]

\* the pairs (output, max_width) draw_tree(t, bright) can return
DrawTreeResults(t, bright) ==
    LET mw == MaxWidth(t)
    IN  {<<<<StarLine(mw, bright)>> \o body \o TrunkLines(mw), mw>> :
            body \in BodyRenders(t, Len(t), mw)}

\* a call draw_tree(tree, star_bright) on a finished tree
DrawTreeCall ==
    /\ pc = "created"
    /\ \E bright \in BOOLEAN :
         \E res \in DrawTreeResults(tree, bright) :
            /\ star_bright' = bright
            /\ tree_drawing' = res[1]
            /\ max_width' = res[2]
    /\ pc' = "drawn"
    /\ UNCHANGED <<createVars, bgVars, duration, fps, frames, frame,
                   terminal_width, terminal_height, blink_state, rendered,
                   horison_size, horison, stars, overlaid, out,
                   star_seen, interrupted_at>>

----------------------------------------------------------------------------
(* draw_background *)

\* code points of the characters of the snow symbols; the last literal of the
\* source has three characters
Space == 32

snow_symbols == <<<<42>>, <<43>>, <<46>>, <<111>>, <<8218, 196, 162>>>>

symbol_weights == <<5, 2, 3, 1, 1>>

\* random.choices(snow_symbols, weights=symbol_weights)[0]: every symbol of
\* positive weight
WeightedChoices ==
    {snow_symbols[k] : k \in {j \in 1..Len(snow_symbols) : symbol_weights[j] > 0}}

\* what one element of the generator can be, p the probability in hundredths
SymbolOptions(snow, p) ==
    UNION {IF r < p /\ snow THEN WeightedChoices ELSE {<<Space>>} : r \in RandomPercent}

\* "".join(... for _ in range(n))
RECURSIVE Joined(_, _, _)
Joined(snow, p, n) ==
    IF n <= 0 THEN {<<>>}
    ELSE {m \o s : m \in Joined(snow, p, n - 1), s \in SymbolOptions(snow, p)}

\* max(0, (terminal_width - max_width) // 2)
BackgroundLength(tw, mw) == Max(0, (tw - mw) \div 2)

\* the strings draw_background(snow, tw, mw, p) can return
DrawBackgroundResults(snow, tw, mw, p) ==
    {<<Space>> \o m \o <<Space>> : m \in Joined(snow, p, BackgroundLength(tw, mw) - 2)}

\* a call draw_background(**call)
DrawBackgroundCall ==
    /\ pc = "draw_background"
    /\ background' \in DrawBackgroundResults(call.snow, call.terminal_width,
                                             call.max_width, call.snow_probability)
    /\ pc' = "background_drawn"
    /\ UNCHANGED <<call, createVars, animVars, drawVars>>

----------------------------------------------------------------------------
(* main and animate_tree *)

light_freq == 5

NumStarsMax == 100

StarRowCap == 10

\* blink_state = frame % 3 == 0
BlinkState(f) == f % 3 = 0

\* star_bright = (frame // light_freq * 2) % 2 == 0
StarBright(f) == ((f \div light_freq) * 2) % 2 = 0

\* int(0.8 * (terminal_height - n)): int() truncates towards zero
HorisonSize(th, n) ==
    LET d == th - n
    IN  IF d >= 0 THEN (4 * d) \div 5 ELSE -((4 * (-d)) \div 5)

\* draw_tree called on every frame, the `if` forgotten
RenderAlways(f, blink) == TRUE

\* the condition under which the frame calls draw_tree
RenderCondition(f, blink) == blink \/ f = 0

\* the stars generated again on every frame, the `if` forgotten
StarsEveryFrame(f) == TRUE

\* the condition under which the frame generates the stars
StarsCondition(f) == f = 0

\* the positions inside the try block of animate_tree
LoopPcs ==
    {"loop", "clear", "dims", "render", "sky", "stars", "overlay", "compose",
     "print", "counter", "sleep"}

NoOutput == [clears |-> 0, frames |-> 0, counters |-> 0, sleeps |-> 0, farewells |-> 0]

\* main: clear_screen() after create_tree, then the call of animate_tree
MainClear ==
    /\ pc = "created"
    /\ out' = [out EXCEPT !.clears = @ + 1]
    /\ pc' = "animate"
    /\ UNCHANGED <<createVars, bgVars, drawVars, duration, fps, frames, frame,
                   terminal_width, terminal_height, blink_state, star_bright,
                   rendered, horison_size, horison, stars, overlaid,
                   star_seen, interrupted_at>>

\* frame_delay = 1.0 / fps; frames = int(duration * fps)
AnimateEnter ==
    /\ pc = "animate"
    /\ frames' = duration * fps
    /\ pc' = "loop"
    /\ UNCHANGED <<createVars, bgVars, drawVars, duration, fps, frame,
                   terminal_width, terminal_height, blink_state, star_bright,
                   rendered, horison_size, horison, stars, overlaid,
                   out, star_seen, interrupted_at>>

\* `for frame in range(frames)`: the next frame, or the end of the loop
LoopNext ==
    /\ pc = "loop"
    /\ IF frame + 1 < frames
       THEN frame' = frame + 1 /\ pc' = "clear"
       ELSE frame' = frame /\ pc' = "returned"
    /\ UNCHANGED <<createVars, bgVars, drawVars, duration, fps, frames,
                   terminal_width, terminal_height, blink_state, star_bright,
                   rendered, horison_size, horison, stars, overlaid,
                   out, star_seen, interrupted_at>>

\* clear_screen() at the top of the frame
ClearFrame ==
    /\ pc = "clear"
    /\ out' = [out EXCEPT !.clears = @ + 1]
    /\ pc' = "dims"
    /\ UNCHANGED <<createVars, bgVars, drawVars, duration, fps, frames, frame,
                   terminal_width, terminal_height, blink_state, star_bright,
                   rendered, horison_size, horison, stars, overlaid,
                   star_seen, interrupted_at>>

\* get_terminal_dimensions(), then blink_state and star_bright
GetDimensions(sizes) ==
    /\ pc = "dims"
    /\ \E size \in sizes :
          /\ terminal_width' = size[1]
          /\ terminal_height' = size[2]
    /\ blink_state' = BlinkState(frame)
    /\ star_bright' = StarBright(frame)
    /\ star_seen' = star_seen \cup {StarBright(frame)}
    /\ pc' = "render"
    /\ UNCHANGED <<createVars, bgVars, drawVars, duration, fps, frames, frame,
                   rendered, horison_size, horison, stars, overlaid,
                   out, interrupted_at>>

\* if blink_state or frame == 0: tree_drawing, max_width = draw_tree(...)
Render ==
    /\ pc = "render"
    /\ IF RenderCondition(frame, blink_state)
       THEN /\ \E res \in DrawTreeResults(tree, star_bright) :
                  /\ tree_drawing' = res[1]
                  /\ max_width' = res[2]
            /\ rendered' = TRUE
       ELSE /\ UNCHANGED drawVars
            /\ rendered' = FALSE
    /\ pc' = "sky"
    /\ UNCHANGED <<createVars, bgVars, duration, fps, frames, frame,
                   terminal_width, terminal_height, blink_state, star_bright,
                   horison_size, horison, stars, overlaid, out,
                   star_seen, interrupted_at>>

\* horison_size and the horison_size lines of horison (none when it is <= 0)
BuildSky ==
    /\ pc = "sky"
    /\ horison_size' = HorisonSize(terminal_height, Len(tree_drawing))
    /\ horison' = Max(0, horison_size')
    /\ pc' = IF StarsCondition(frame) THEN "stars" ELSE "overlay"
    /\ UNCHANGED <<createVars, bgVars, drawVars, duration, fps, frames, frame,
                   terminal_width, terminal_height, blink_state, star_bright,
                   rendered, stars, overlaid, out, star_seen,
                   interrupted_at>>

\* [random.randint(0, min(10, horison_size)), random.randint(0, terminal_width)]
StarChoices ==
    {<<line_index, char_index>> :
        line_index \in 0..Min(StarRowCap, horison_size),
        char_index \in 0..terminal_width}

\* the stars of frame 0; random.randint(0, b) raises ValueError when b < 0
GenerateStars(maxStars) ==
    /\ pc = "stars"
    /\ IF Min(StarRowCap, horison_size) < 0
       THEN stars' = <<>> /\ pc' = "crashed"
       ELSE /\ \E num_stars \in 1..Min(NumStarsMax, maxStars) :
                  stars' \in [1..num_stars -> StarChoices]
            /\ pc' = "overlay"
    /\ UNCHANGED <<createVars, bgVars, drawVars, duration, fps, frames, frame,
                   terminal_width, terminal_height, blink_state, star_bright,
                   rendered, horison_size, horison, overlaid, out,
                   star_seen, interrupted_at>>

\* the stars whose horison[line_index] is past the end of the list
OutOfSky == {k \in 1..Len(stars) : stars[k][1] >= horison}

\* `for line_index, char_index in stars: horison[line_index] = ...`;
\* horison[line_index] raises IndexError when line_index >= len(horison)
Overlay ==
    /\ pc = "overlay"
    /\ IF OutOfSky = {}
       THEN overlaid' = stars /\ pc' = "compose"
       ELSE /\ overlaid' = SubSeq(stars, 1, (CHOOSE k \in OutOfSky :
                                    \A j \in OutOfSky : k <= j) - 1)
            /\ pc' = "crashed"
    /\ UNCHANGED <<createVars, bgVars, drawVars, duration, fps, frames, frame,
                   terminal_width, terminal_height, blink_state, star_bright,
                   rendered, horison_size, horison, stars, out,
                   star_seen, interrupted_at>>

\* drawing: one line per line of tree_drawing, between two backgrounds; message
Compose ==
    /\ pc = "compose"
    /\ pc' = "print"
    /\ UNCHANGED <<createVars, bgVars, drawVars, duration, fps, frames, frame,
                   terminal_width, terminal_height, blink_state, star_bright,
                   rendered, horison_size, horison, stars, overlaid, out,
                   star_seen, interrupted_at>>

\* the print nested under `if blink_state`: only blinking frames are printed
PrintFrameOnBlink ==
    /\ pc = "print"
    /\ out' = IF blink_state THEN [out EXCEPT !.frames = @ + 1] ELSE out
    /\ pc' = "counter"
    /\ UNCHANGED <<createVars, bgVars, drawVars, duration, fps, frames, frame,
                   terminal_width, terminal_height, blink_state, star_bright,
                   rendered, horison_size, horison, stars, overlaid,
                   star_seen, interrupted_at>>

\* print("\n".join(horison + drawing + message))
PrintFrame ==
    /\ pc = "print"
    /\ out' = [out EXCEPT !.frames = @ + 1]
    /\ pc' = "counter"
    /\ UNCHANGED <<createVars, bgVars, drawVars, duration, fps, frames, frame,
                   terminal_width, terminal_height, blink_state, star_bright,
                   rendered, horison_size, horison, stars, overlaid,
                   star_seen, interrupted_at>>

\* print(f"\nFrame: {frame + 1}/{frames} | Press Ctrl+C to stop")
PrintCounter ==
    /\ pc = "counter"
    /\ out' = [out EXCEPT !.counters = @ + 1]
    /\ pc' = "sleep"
    /\ UNCHANGED <<createVars, bgVars, drawVars, duration, fps, frames, frame,
                   terminal_width, terminal_height, blink_state, star_bright,
                   rendered, horison_size, horison, stars, overlaid,
                   star_seen, interrupted_at>>

\* time.sleep(frame_delay)
Sleep ==
    /\ pc = "sleep"
    /\ out' = [out EXCEPT !.sleeps = @ + 1]
    /\ pc' = "loop"
    /\ UNCHANGED <<createVars, bgVars, drawVars, duration, fps, frames, frame,
                   terminal_width, terminal_height, blink_state, star_bright,
                   rendered, horison_size, horison, stars, overlaid,
                   star_seen, interrupted_at>>

\* the try block placed inside the loop body: the handler runs and the loop
\* goes on with the next frame
InterruptInsideLoop ==
    /\ pc \in LoopPcs
    /\ interrupted_at' = pc
    /\ out' = [out EXCEPT !.clears = @ + 1, !.farewells = @ + 1]
    /\ pc' = "loop"
    /\ UNCHANGED <<createVars, bgVars, drawVars, duration, fps, frames, frame,
                   terminal_width, terminal_height, blink_state, star_bright,
                   rendered, horison_size, horison, stars, overlaid,
                   star_seen>>

\* KeyboardInterrupt raised inside the try block, and its handler:
\* clear_screen() and the farewell
Interrupt ==
    /\ pc \in LoopPcs
    /\ interrupted_at' = pc
    /\ out' = [out EXCEPT !.clears = @ + 1, !.farewells = @ + 1]
    /\ pc' = "stopped"
    /\ UNCHANGED <<createVars, bgVars, drawVars, duration, fps, frames, frame,
                   terminal_width, terminal_height, blink_state, star_bright,
                   rendered, horison_size, horison, stars, overlaid,
                   star_seen>>

----------------------------------------------------------------------------
(* Initial states and specifications *)

NoCall == [snow |-> FALSE, terminal_width |-> 0, max_width |-> 0, snow_probability |-> 0]

\* the variables of create_tree before any call
IdleCreate == height = 0 /\ i = 0 /\ tree = <<>>

\* the variables of draw_background before any call
IdleBackground == call = NoCall /\ background = <<>>

\* the result of draw_tree before any call
IdleDraw == tree_drawing = <<>> /\ max_width = 0

\* the variables of animate_tree before the call
IdleAnimate ==
    /\ duration = 0 /\ fps = 1 /\ frames = 0 /\ frame = -1
    /\ terminal_width = 0 /\ terminal_height = 0
    /\ blink_state = FALSE /\ star_bright = FALSE /\ rendered = FALSE
    /\ horison_size = 0 /\ horison = 0
    /\ stars = <<>> /\ overlaid = <<>>
    /\ out = NoOutput /\ star_seen = {} /\ interrupted_at = "none"

\* create_tree(height) alone
InitCreate ==
    /\ pc = "create_tree"
    /\ height \in 1..MaxHeight /\ i = 0 /\ tree = <<>>
    /\ IdleBackground /\ IdleDraw /\ IdleAnimate

NextCreate == CreateRow \/ CreateReturn

SpecCreate == InitCreate /\ [][NextCreate]_vars

\* draw_tree(create_tree(height), star_bright) alone
InitDraw ==
    /\ pc = "create_tree"
    /\ height \in 1..MaxDrawHeight /\ i = 0 /\ tree = <<>>
    /\ IdleBackground /\ IdleDraw /\ IdleAnimate

NextDraw == CreateRow \/ CreateReturn \/ DrawTreeCall

SpecDraw == InitDraw /\ [][NextDraw]_vars

\* snow_probability in hundredths: never, the default 0.05, always
SnowProbabilities == {0, 5, 100}

\* draw_background(snow, terminal_width, max_width, snow_probability) alone
InitBackground ==
    /\ pc = "draw_background"
    /\ call \in [snow : BOOLEAN, terminal_width : 0..MaxBgWidth,
                 max_width : 0..MaxBgContent, snow_probability : SnowProbabilities]
    /\ background = <<>>
    /\ IdleCreate /\ IdleDraw /\ IdleAnimate

NextBackground == DrawBackgroundCall

SpecBackground == InitBackground /\ [][NextBackground]_vars

\* main(): create_tree(height), clear_screen(), animate_tree(tree, duration, fps)
InitAnimate(heights, durations, rates) ==
    /\ pc = "create_tree"
    /\ height \in heights /\ i = 0 /\ tree = <<>>
    /\ IdleBackground /\ IdleDraw
    /\ duration \in durations /\ fps \in rates /\ frames = 0 /\ frame = -1
    /\ terminal_width = 0 /\ terminal_height = 0
    /\ blink_state = FALSE /\ star_bright = FALSE /\ rendered = FALSE
    /\ horison_size = 0 /\ horison = 0
    /\ stars = <<>> /\ overlaid = <<>>
    /\ out = NoOutput /\ star_seen = {} /\ interrupted_at = "none"

\* the program with a terminal that reports the sizes `sizes`
NextAnimate(sizes, maxStars) ==
    \/ CreateRow
    \/ CreateReturn
    \/ MainClear
    \/ AnimateEnter
    \/ LoopNext
    \/ ClearFrame
    \/ GetDimensions(sizes)
    \/ Render
    \/ BuildSky
    \/ GenerateStars(maxStars)
    \/ Overlay
    \/ Compose
    \/ PrintFrame
    \/ PrintCounter
    \/ Sleep
    \/ Interrupt

\* terminals of any small size, resized at will between frames
TermHeights == {0, 2, SmallTermHeight}

TermSizes == (0..MaxTermWidth) \X TermHeights

Init == InitAnimate(1..MaxAnimHeight, 0..MaxDuration, 1..MaxFps)

Next == NextAnimate(TermSizes, MaxStars)

Spec == Init /\ [][Next]_vars

\* a terminal of one fixed size, a few lines taller than the tallest tree
FixedSizes == {<<0, MaxRenderHeight + 4>>}

InitRender == InitAnimate(1..MaxRenderHeight, {0, MaxRenderDuration}, {1})

NextRender == NextAnimate(FixedSizes, 1)

SpecRender == InitRender /\ [][NextRender]_vars

InitStar == InitAnimate({1}, 0..MaxStarDuration, {1})

NextStar == NextAnimate(FixedSizes, 1)

SpecStar == InitStar /\ [][NextStar]_vars

----------------------------------------------------------------------------
(* The claims *)

\* the program has ended: animate_tree returned, an exception other than
\* KeyboardInterrupt left it, or the interrupt handler ran
Terminated == pc \in {"returned", "crashed", "stopped"}

\* the clear_screen() calls made at the top of a frame
FrameClears == out.clears - 1 - out.farewells

\* C1: with no interrupt, animate_tree runs exactly duration * fps iterations
\* (each clears, prints the frame and its counter, and sleeps) and then
\* returns normally, whatever the terminal sizes and the random choices.
C1_RunsEveryFrame ==
    (Terminated /\ interrupted_at = "none") =>
        /\ pc = "returned"
        /\ FrameClears = duration * fps
        /\ out.frames = duration * fps
        /\ out.counters = duration * fps
        /\ out.sleeps = duration * fps

C3_TreeShape ==
    pc = "created" =>
        /\ Len(tree) = height
        /\ tree[1] = <<1, <<>>>>
        /\ \A k \in 2..height :
              /\ tree[k][1] = 1 + 2 * (k - 1)
              /\ \A p \in Elems(tree[k][2]) : 0 <= p /\ p < tree[k][1]

C3_Witness ==
    /\ pc = "created"
    /\ height >= 9
    /\ Len(tree[9][2]) >= 5
    /\ Len(tree[5][2]) >= 3

\* C4: draw_background returns a string of length exactly
\* max(0, (terminal_width - content_width) div 2), the values 0 and 1 included.
C4_ExactLength ==
    pc = "background_drawn" =>
        Len(background) =
            (IF call.terminal_width - call.max_width >= 0
             THEN (call.terminal_width - call.max_width) \div 2 ELSE 0)

\* C5: draw_tree is called on frame f only if f is the first frame or
\* blink_state differs from that of frame f-1; on every other frame the tree
\* lines the frame composites are those of frame f-1, reused verbatim.
C5_RenderOnlyOnBlinkChange ==
    [][/\ (pc = "render" /\ pc' = "sky") =>
            /\ rendered' => (frame = 0 \/ blink_state # BlinkState(frame - 1))
            /\ ~rendered' => tree_drawing' = tree_drawing
       /\ (pc \in LoopPcs /\ pc # "render") => tree_drawing' = tree_drawing]_vars

C5_Witness ==
    /\ pc = "compose"
    /\ frame = 3
    /\ rendered
    /\ height = 2

\* C6: over a run of at least two periods of light_freq frames, star_bright is
\* true on some frame and false on some other frame.
C6_StarToggles ==
    (pc = "returned" /\ frames >= 2 * light_freq) => star_seen = {TRUE, FALSE}

FoliageColumns(line) ==
    {c \in 0..(Len(line.cells) - 1) : line.cells[c + 1][2] = foliage_glyph}

\* the glyphs of a rendered line
Glyphs(line) == {line.cells[c][2] : c \in 1..Len(line.cells)}

\* C8: draw_tree returns len(tree) + 2 lines (star, one per row after row 0,
\* two trunk lines) and in each body row the foliage columns are the columns
\* that are no ornament offset, for every star_bright and every colouring;
\* for create_tree(1): a star line, no body line, two trunk lines, no ornament.
C8_StableShape ==
    pc = "drawn" =>
        /\ Len(tree_drawing) = Len(tree) + 2
        /\ Glyphs(tree_drawing[1]) = {star_glyph}
        /\ \A k \in 2..Len(tree) :
              FoliageColumns(tree_drawing[k]) =
                  (0..(tree[k][1] - 1)) \ Elems(tree[k][2])
        /\ \A k \in (Len(tree) + 1)..(Len(tree) + 2) :
              Glyphs(tree_drawing[k]) = {trunk_glyph}
        /\ Len(tree) = 1 =>
              \A k \in 1..Len(tree_drawing) :
                  ornament_glyph \notin Glyphs(tree_drawing[k])

C8_Witness ==
    /\ pc = "drawn"
    /\ height = 3
    /\ ~star_bright
    /\ tree_drawing[2].cells[2] = <<"GREEN", ornament_glyph>>
    /\ tree_drawing[3].cells[2] = <<"GOLD", ornament_glyph>>

\* C9: the interrupt is observed only between frames: when the loop stops
\* because of an interrupt, every frame that was started has been cleared,
\* printed and followed by its counter line.
C9_OnlyBetweenFrames ==
    pc = "stopped" =>
        /\ out.frames = FrameClears
        /\ out.counters = out.frames

\* C9 as amended: the interrupt is observed at any point of a frame; when the
\* loop stops because of an interrupt, every frame before the one in progress
\* has been cleared, printed and followed by its counter line, and only the
\* frame in progress may be cut short.
C9_OnlyCurrentFrameCut ==
    pc = "stopped" =>
        /\ out.counters >= frame
        /\ out.counters <= out.frames
        /\ out.frames <= FrameClears
        /\ FrameClears <= frame + 1

C9_Witness ==
    /\ pc = "stopped"
    /\ interrupted_at = "overlay"
    /\ frame = 1
    /\ FrameClears = 2
    /\ out.frames = 1
    /\ out.counters = 1

\* C10: on every frame every star's row is an index of that frame's sky,
\* 0 <= row < sky height, so the overlay never indexes outside the sky lines.
C10_StarsInsideSky ==
    pc = "overlay" =>
        \A k \in 1..Len(stars) : 0 <= stars[k][1] /\ stars[k][1] < horison_size

====
